---- MODULE Spec2Model ----
(***************************************************************************)
(* almanach subscription engine: the JoinDefragmenter (defragment.py), the *)
(* per-message handler and the start-up of JoinPipeline (_pipelines.py),   *)
(* and Subscriber.run (subscriber.py).                                     *)
(*                                                                         *)
(* Four specifications share the state:                                    *)
(*   SpecDefrag  drives JoinDefragmenter.push directly (as the unit tests  *)
(*               of test_defragment.py do), under a stepping clock;        *)
(*   SpecRejoin  pushes fragments of one key again and again, within the   *)
(*               TTL, to joins of two and of three sources;                *)
(*   Spec        runs the delivery tasks of one pipeline, one task per     *)
(*               subscribed subject, through JoinPipeline's handler;       *)
(*   SpecRun     follows Subscriber.run and JoinPipeline.__call__ from the *)
(*               registered pipelines to the idle wait and its end.        *)
(***************************************************************************)
EXTENDS Integers, Sequences, FiniteSets, TLC

VARIABLES
    sources,      \* source_order: the declared source names, in order
    subjects,     \* subject -> name of the source whose handler is bound to it
    validator,    \* which user validator the pipeline was built with
    max_age_s,    \* JoinDefragmenter._max_age_s
    build_fn,     \* JoinDefragmenter._build: "default", or "pipeline" when one was passed
    pending,      \* JoinDefragmenter._pending: join key -> _JoinInflight
    now,          \* time.monotonic()
    lock,         \* JoinPipeline._lock: the task holding it, or NoTask
    pc,           \* per delivery task: where it is in handler(msg)
    cur,          \* per delivery task: the frame it was last given, and its number
    completed,    \* per delivery task: the local `completed` list
    hist,         \* history: every frame delivered, in order, and what became of it
    calls,        \* history: every invocation of the user callback, in order
    delivered,    \* history: number of direct pushes so far (SpecDefrag)
    npush,        \* history: pushes stored per (join key, source)
    latest,       \* history: last fragment stored per (join key, source)
    lastPush,     \* history: the most recent call of push and what it did
    emitted,      \* history: merged payloads push has returned so far, per join key
    pipelines,    \* Subscriber._pipelines: the registered pipelines, as their sources
    invoked,      \* history: how often each registered pipeline was called
    rpc,          \* where Subscriber.run / JoinPipeline.__call__ stands
    nc,           \* JoinPipeline._nc: "none", or the state of the broker connection
    trace,        \* history: the calls made on the broker client, in order
    raised,       \* the exception Subscriber.run ended with, or "none"
    lastCall      \* history: the last call of subscribe, of its decorator, or of
                  \* JoinPipeline(...), with its arguments and the exception raised

joinVars == <<sources, subjects, validator, max_age_s, build_fn, pending, now, lock, pc, cur,
              completed, hist, calls, delivered, npush, latest, lastPush, emitted>>
runVars == <<pipelines, invoked, rpc, nc, trace, raised, lastCall>>
vars == <<joinVars, runVars>>

-----------------------------------------------------------------------------
(* Bounds of the model.                                                    *)

MaxFrames == 3      \* frames delivered to a pipeline in one behaviour
MaxPushes == 3      \* direct pushes in one behaviour of SpecDefrag
MaxTime == 3        \* last clock value of SpecDefrag (steps of 1)
MaxTicks == 1       \* clock steps of a pipeline behaviour
TickLen == 60       \* seconds per clock step of a pipeline behaviour
MaxRejoin == 6      \* direct pushes in one behaviour of SpecRejoin
MaxPipelines == 2   \* pipelines registered with one Subscriber

(* Program constants.                                                      *)

DefaultMaxAge == 60 \* max_age_s: float = 60.0
TestMaxAge == 1     \* max_age_s=1.0 in test_join_defragmenter_cleanup_removes_stale
NoMaxAge == 0       \* max_age_s=0: cleanup disabled
DefaultPort == 4222 \* UrlConstraints(..., default_port=4222)

-----------------------------------------------------------------------------
(* Values, payloads and frames.                                            *)

Val(type, v) == [t |-> type, v |-> v]
NoneVal == Val("none", "None")
ListVal == Val("list", "[]")

KeyField == "msg_uuid"
KeyValues == {Val("str", "1"), Val("str", "2")}
OverValues == {Val("str", "raw"), Val("str", "enriched")}

EmptyMap == << >>

\* dict.update / dict[k] = v on mappings
Update(m, p) == [f \in DOMAIN m \cup DOMAIN p |-> IF f \in DOMAIN p THEN p[f] ELSE m[f]]
Put(m, k, v) == [f \in DOMAIN m \cup {k} |-> IF f = k THEN v ELSE m[f]]
Remove(m, k) == [f \in DOMAIN m \ {k} |-> m[f]]
Get(m, k) == IF k \in DOMAIN m THEN m[k] ELSE NoneVal
Get0(m, k) == IF k \in DOMAIN m THEN m[k] ELSE 0

\* Fragments with a legal join key and a field `over` that fragments of
\* different sources (or two fragments of one source) disagree on.
OverPayloads == {[msg_uuid |-> k, over |-> o] : k \in KeyValues, o \in OverValues}

\* Fragments with a legal join key and a field `y` only they carry.
YPayloads == {[msg_uuid |-> k, y |-> Val("int", "2")] : k \in KeyValues}

KeyedPayloads == OverPayloads \cup YPayloads

\* Fragments whose join key is missing, or of an illegal shape.
UnkeyedPayloads ==
    {[over |-> Val("str", "raw")], [msg_uuid |-> ListVal, over |-> Val("str", "raw")]}

Payloads == KeyedPayloads \cup UnkeyedPayloads

-----------------------------------------------------------------------------
(* JoinDefragmenter (defragment.py).                                       *)

_required_sources == {sources[i] : i \in 1..Len(sources)}

RECURSIVE Overlay(_, _, _)
Overlay(order, parts, merged) ==
    IF order = << >> THEN merged
    ELSE Overlay(Tail(order), parts,
                 IF Head(order) \in DOMAIN parts
                 THEN Update(merged, parts[Head(order)]) ELSE merged)

\* for s in source_order: p = parts.get(s); if p is not None: merged.update(p)
_default_build(parts) == Overlay(sources, parts, EmptyMap)

RECURSIVE Reversed(_)
Reversed(q) == IF q = << >> THEN q ELSE Append(Reversed(Tail(q)), Head(q))

\* Variant of build: the overlays are applied in the reverse order.
build_reversed(parts) == Overlay(Reversed(sources), parts, EmptyMap)

\* The build closure JoinPipeline.__init__ passes to its JoinDefragmenter.
build(parts) == Overlay(sources, parts, EmptyMap)

\* self._build(inflight.parts)
_build(parts) == IF build_fn = "pipeline" THEN build(parts) ELSE _default_build(parts)

\* The exception _extract_key raises on this payload, or "none".
_extract_key_exc(payload) ==
    IF Get(payload, KeyField) = NoneVal THEN "ValueError"
    ELSE IF payload[KeyField].t \in {"str", "int", "float", "bytes"} THEN "none"
    ELSE "TypeError"

\* Variant of _stale: the age is allowed one second more.
_stale_late(entry, t) == t - entry.created_at > max_age_s + 1

\* An entry is stale when now - created_at > max_age_s.
_stale(entry, t) == t - entry.created_at > max_age_s

\* Variant of _cleanup: nothing is ever removed.
_cleanup_never(pend, t) == pend

\* Variant of _cleanup: the scan stops at the first stale key it finds.
_cleanup_first_only(pend, t) ==
    LET stale == {j \in DOMAIN pend : t - pend[j].created_at > max_age_s}
    IN  IF max_age_s <= 0 \/ stale = {} THEN pend
        ELSE [k \in DOMAIN pend \ {CHOOSE j \in stale : TRUE} |-> pend[k]]

\* Variant of _cleanup: the test of max_age_s <= 0 is missing.
_cleanup_unguarded(pend, t) ==
    [k \in {j \in DOMAIN pend : t - pend[j].created_at <= max_age_s} |-> pend[k]]

\* _pending after _cleanup() ran with time.monotonic() = t.
_cleanup(pend, t) ==
    IF max_age_s <= 0 THEN pend
    ELSE [k \in {j \in DOMAIN pend : ~_stale(pend[j], t)} |-> pend[k]]

\* Variant of _store: a slot already filled keeps its fragment (setdefault).
_store_keep_first(parts, source, payload) ==
    IF source \in DOMAIN parts THEN parts ELSE Put(parts, source, payload)

\* inflight.parts[source] = payload
_store(parts, source, payload) == Put(parts, source, payload)

\* Variant of _is_complete: one required source is enough.
_is_complete_any(parts) == _required_sources \cap DOMAIN parts # {}

\* self._required_sources.issubset(inflight.parts.keys())
_is_complete(parts) == _required_sources \subseteq DOMAIN parts

\* Variant of _after_complete: the entry is emptied and left in _pending.
_after_complete_cleared(pend, k) == Put(pend, k, [created_at |-> pend[k].created_at, parts |-> EmptyMap])

\* Variant of _after_complete: the completed entry is left in _pending.
_after_complete_kept(pend, k) == pend

\* _pending after a completed join: self._pending.pop(join_key, None)
_after_complete(pend, k) == Remove(pend, k)

\* Variant of _new_inflight: the entry is dated by the default of the field.
_new_inflight_undated(t) == [created_at |-> 0, parts |-> EmptyMap]

\* _JoinInflight(created_at=time.monotonic(), parts={})
_new_inflight(t) == [created_at |-> t, parts |-> EmptyMap]

\* push(source, payload) entered with time.monotonic() = t; a new entry is
\* dated by a second reading of the clock, t + d.  The result names the
\* exception raised (or "none"), the returned list and the state left behind.
push(pend, t, d, source, payload) ==
    LET cleaned == _cleanup(pend, t)
        exc == _extract_key_exc(payload)
    IN  IF exc # "none"
        THEN [exc |-> exc, out |-> << >>, pending |-> cleaned, fresh |-> FALSE,
              created_at |-> t, stored_at |-> t, parts |-> EmptyMap,
              evicted |-> DOMAIN pend \ DOMAIN cleaned]
        ELSE
        LET k == payload[KeyField]
            fresh == k \notin DOMAIN cleaned
            inflight == IF fresh THEN _new_inflight(t + d) ELSE cleaned[k]
            stored_at == IF fresh THEN t + d ELSE t
            parts == _store(inflight.parts, source, payload)
            stored == Put(cleaned, k, [created_at |-> inflight.created_at, parts |-> parts])
        IN  IF ~_is_complete(parts)
            THEN [exc |-> "none", out |-> << >>, pending |-> stored, fresh |-> fresh,
                  created_at |-> inflight.created_at, stored_at |-> stored_at,
                  parts |-> parts, evicted |-> DOMAIN pend \ DOMAIN cleaned]
            ELSE [exc |-> "none", out |-> <<_build(parts)>>,
                  pending |-> _after_complete(stored, k), fresh |-> fresh,
                  created_at |-> inflight.created_at, stored_at |-> stored_at,
                  parts |-> parts, evicted |-> DOMAIN pend \ DOMAIN cleaned]

-----------------------------------------------------------------------------
(* History of the pushes, kept beside the program state.                   *)

NoPush == [src |-> "", payload |-> EmptyMap, at |-> 0, exc |-> "none", out |-> << >>,
           fresh |-> FALSE, created_at |-> 0, parts |-> EmptyMap, evicted |-> {}]

\* The record of one push: what was pushed, when, and what came of it.
PushRecord(t, source, payload, r) ==
    [src |-> source, payload |-> payload, at |-> t, exc |-> r.exc, out |-> r.out,
     fresh |-> r.fresh, created_at |-> r.created_at, parts |-> r.parts,
     evicted |-> r.evicted]

\* The fragment, with the clock value at which it was stored, becomes the
\* latest one of its (key, source); a push that raised stored nothing.
LatestAfter(lat, source, payload, r) ==
    IF r.exc # "none" THEN lat
    ELSE LET k == payload[KeyField]
         IN  [lat EXCEPT ![k] = Put(lat[k], source, [payload |-> payload, at |-> r.stored_at])]

CountAfter(cnt, source, payload, r) ==
    IF r.exc # "none" THEN cnt
    ELSE LET k == payload[KeyField]
         IN  [cnt EXCEPT ![k] = Put(cnt[k], source, Get0(cnt[k], source) + 1)]

\* The payloads pushed directly.
DefragPayloads == OverPayloads \cup UnkeyedPayloads

\* The clock drift between the two readings of time.monotonic() in one push.
Drift == {0, 1}

-----------------------------------------------------------------------------
(* SpecDefrag: JoinDefragmenter driven directly.                           *)

NoTask == ""

\* No call of subscribe or of the constructor is on record.
NoCall == [op |-> "none", topics |-> << >>, sources |-> << >>, key |-> NoneVal, exc |-> "none"]

\* No Subscriber.run is followed: the defragmenter, or the handlers of a
\* pipeline that has reached its idle wait, are all there is.
NoRun ==
    /\ pipelines = << >>
    /\ invoked = << >>
    /\ rpc = "none"
    /\ nc = "none"
    /\ trace = << >>
    /\ raised = "none"
    /\ lastCall = NoCall

InitDefrag ==
    /\ sources \in {<<"raw", "enriched">>, <<"raw">>}
    /\ subjects = EmptyMap
    /\ validator = "identity"
    /\ max_age_s \in {NoMaxAge - 1, NoMaxAge, TestMaxAge}
    /\ build_fn = "default"
    /\ pending = EmptyMap
    /\ now = 0
    /\ lock = NoTask
    /\ pc = EmptyMap
    /\ cur = EmptyMap
    /\ completed = EmptyMap
    /\ hist = << >>
    /\ calls = << >>
    /\ delivered = 0
    /\ npush = [k \in KeyValues |-> EmptyMap]
    /\ latest = [k \in KeyValues |-> EmptyMap]
    /\ lastPush = NoPush
    /\ emitted = [k \in KeyValues |-> 0]
    /\ NoRun

\* jd.push(source, payload), called by a test or any direct user.
DirectPush(source, payload, d) ==
    /\ delivered < MaxPushes
    /\ now + d <= MaxTime
    /\ LET r == push(pending, now, d, source, payload)
       IN  /\ d = 0 \/ r.fresh
           /\ pending' = r.pending
           /\ now' = r.stored_at
           /\ lastPush' = PushRecord(now, source, payload, r)
           /\ latest' = LatestAfter(latest, source, payload, r)
    /\ delivered' = delivered + 1
    /\ UNCHANGED <<runVars, emitted, sources, subjects, validator, max_age_s, build_fn, lock, pc, cur,
                   completed, hist, calls, npush>>

\* The monotonic clock advances.
Tick(step, horizon) ==
    /\ now + step <= horizon
    /\ now' = now + step
    /\ UNCHANGED <<runVars, emitted, sources, subjects, validator, max_age_s, build_fn, pending, lock, pc,
                   cur, completed, hist, calls, delivered, npush, latest, lastPush>>

NextDefrag ==
    \/ \E s \in _required_sources, p \in DefragPayloads, d \in Drift : DirectPush(s, p, d)
    \/ Tick(1, MaxTime)

SpecDefrag == InitDefrag /\ [][NextDefrag]_vars

-----------------------------------------------------------------------------
(* SpecRejoin: fragments of one join key pushed again and again, within    *)
(* the TTL (the clock stands still), to joins of two and of three sources. *)

RejoinKey == Val("str", "1")
RejoinPayloads == {p \in OverPayloads : p[KeyField] = RejoinKey}

\* One more merged payload returned for the key of the push, if any.
EmittedAfter(cnt, payload, r) ==
    IF r.out = << >> THEN cnt
    ELSE [cnt EXCEPT ![payload[KeyField]] = @ + Len(r.out)]

InitRejoin ==
    /\ sources \in {<<"raw", "enriched">>, <<"raw", "enriched", "extra">>}
    /\ subjects = EmptyMap
    /\ validator = "identity"
    /\ max_age_s = DefaultMaxAge
    /\ build_fn = "default"
    /\ pending = EmptyMap
    /\ now = 0
    /\ lock = NoTask
    /\ pc = EmptyMap
    /\ cur = EmptyMap
    /\ completed = EmptyMap
    /\ hist = << >>
    /\ calls = << >>
    /\ delivered = 0
    /\ npush = [k \in KeyValues |-> EmptyMap]
    /\ latest = [k \in KeyValues |-> EmptyMap]
    /\ lastPush = NoPush
    /\ emitted = [k \in KeyValues |-> 0]
    /\ NoRun

\* jd.push(source, payload), with the pushes and the merges counted.
Repush(source, payload) ==
    /\ delivered < MaxRejoin
    /\ LET r == push(pending, now, 0, source, payload)
       IN  /\ pending' = r.pending
           /\ lastPush' = PushRecord(now, source, payload, r)
           /\ latest' = LatestAfter(latest, source, payload, r)
           /\ npush' = CountAfter(npush, source, payload, r)
           /\ emitted' = EmittedAfter(emitted, payload, r)
    /\ delivered' = delivered + 1
    /\ UNCHANGED <<runVars, sources, subjects, validator, max_age_s, build_fn, now, lock, pc,
                   cur, completed, hist, calls>>

NextRejoin == \E s \in _required_sources, p \in RejoinPayloads : Repush(s, p)

SpecRejoin == InitRejoin /\ [][NextRejoin]_vars

-----------------------------------------------------------------------------
(* Frames, the user's validator and callback (the pipeline's inputs).      *)

\* A frame msgpack cannot unpack, one that unpacks to a list, and maps.
Garbage == [kind |-> "garbage", map |-> EmptyMap]
ListFrame == [kind |-> "list", map |-> EmptyMap]
MapFrame(p) == [kind |-> "map", map |-> p]
NoFrame == [kind |-> "none", map |-> EmptyMap]

\* Keys that msgpack hands over as bytes rather than str.
BytesKeys == {"b:y"}
BytesKeyFrame == MapFrame(("msg_uuid" :> Val("str", "1")) @@ ("b:y" :> Val("int", "2")))

\* The frames delivered to a pipeline: its fragments all carry one join key.
PipelineKey == Val("str", "1")
PipelinePayloads == {p \in Payloads : KeyField \in DOMAIN p => p[KeyField] \in {PipelineKey, ListVal}}
Frames == {Garbage, ListFrame, BytesKeyFrame} \cup {MapFrame(p) : p \in PipelinePayloads}

\* The exception classes of the model.  All but CancelledError derive from
\* Exception; the first three are the ones the handler treats as a rejection.
Recognized == {"ValidationError", "ValueError", "TypeError"}
ExceptionClasses == Recognized \cup {"UnpackException", "KeyError", "RuntimeError"}
BaseOnly == {"CancelledError"}

\* The validators a pipeline is built with: the identity of
\* test_aggregate_pipeline, a schema that requires the field y, and a
\* validator that reads the field (int(raw["a"]) in test_pipeline).
Validators == {"identity", "schema", "getitem"}

Validator(p) ==
    CASE validator = "identity" -> [exc |-> "none", val |-> p]
      [] validator = "schema" ->
            IF "y" \in DOMAIN p THEN [exc |-> "none", val |-> [model |-> p]]
            ELSE [exc |-> "ValidationError", val |-> EmptyMap]
      [] OTHER ->
            IF "y" \in DOMAIN p THEN [exc |-> "none", val |-> p["y"]]
            ELSE [exc |-> "KeyError", val |-> EmptyMap]

\* What a call of the user callback may do: return, return an awaitable that
\* suspends, or raise.
CallOutcomes == {"return", "await", "ValueError", "RuntimeError"}
\* How an awaited callback may end: return, raise, or be cancelled.
AwaitOutcomes == {"return", "ValueError", "RuntimeError", "CancelledError"}

-----------------------------------------------------------------------------
(* JoinPipeline.__call__.handler (_pipelines.py).                          *)

Tasks == DOMAIN subjects
\* Variant of _single_source: a defragmenter is built for one source too.
_single_source_never == FALSE

_single_source == Len(sources) = 1

\* The history entry of a frame just delivered to task t.
Delivered(t) ==
    [by |-> t, log |-> "none", msg |-> "", pushed |-> FALSE, called |-> 0,
     escaped |-> "none"]

\* msg, and payload_dict, of the frame task t is handling.
_msg(t) == cur[t].frame
_payload_dict(t) == _msg(t).map

\* coerce_str (_types.py): a str as it is, bytes decoded as UTF-8.
Utf8 == ("b:y" :> "y")
coerce_str(k) == IF k \in BytesKeys THEN Utf8[k] ELSE k

\* coerce_mapping (_types.py) on the value a frame unpacks to: the exception
\* it raises, or "none"; and the mapping it returns.
coerce_mapping_exc(frame) == IF frame.kind # "map" THEN "TypeError" ELSE "none"
coerce_mapping(frame) ==
    [f \in {coerce_str(k) : k \in DOMAIN frame.map} |->
        frame.map[CHOOSE k \in DOMAIN frame.map : coerce_str(k) = f]]

\* Variant of _decode_exc: the isinstance checks are missing.
_decode_exc_unchecked(frame) == IF frame.kind = "garbage" THEN "UnpackException" ELSE "none"

\* raw = msgpack.unpackb(...); the isinstance checks on raw and on its keys.
_decode_exc(frame) ==
    CASE frame.kind = "garbage" -> "UnpackException"
      [] frame.kind # "map" -> "TypeError"
      [] \E k \in DOMAIN frame.map : k \in BytesKeys -> "TypeError"
      [] OTHER -> "none"

\* Variant of _outer_catches: the outer try names the recognized classes only.
_outer_catches_recognized(exc) == exc \in Recognized

\* except Exception: of the handler's outer try.
_outer_catches(exc) == exc \in ExceptionClasses

\* except (ValidationError, ValueError, TypeError) of the two inner tries.
_inner_catches(exc) == exc \in Recognized

\* self._log.warning(msg, ...) / self._log.exception(msg, ...) for frame i.
_log(h, i, level, msg) == [h EXCEPT ![i].log = level, ![i].msg = msg]

\* Variant of _lock_after_push: the lock is kept over the rest of the handler.
_lock_kept_after_push(t) == t

\* The lock once `async with self._lock:` is left, normally or by an exception.
_lock_after_push(t) == NoTask

\* An exception leaves the inner code of task t, at work on frame i: the outer
\* try logs it and the handler returns, or it escapes to the broker client.
Raise(t, i, exc, h) ==
    IF _outer_catches(exc)
    THEN /\ pc' = [pc EXCEPT ![t] = "idle"]
         /\ hist' = _log(h, i, "error", "Message handling failed")
    ELSE /\ pc' = [pc EXCEPT ![t] = "escaped"]
         /\ hist' = [h EXCEPT ![i].escaped = exc]

\* Variant of _validated: the handler goes on whatever the validator did.
_validated_always(r) == TRUE

\* The validator returned: the inner try of payload = self._validator(payload_dict)
\* was left without an exception.
_validated(r) == r.exc = "none"

\* The broker client calls handler(msg) on the task of the frame's subject.
\* The handler unpacks the frame, builds payload_dict and runs the validator on
\* it (in its own try); none of this suspends.
Deliver(t, frame) ==
    /\ pc[t] = "idle"
    /\ Len(hist) < MaxFrames
    /\ LET i == Len(hist) + 1
           h == Append(hist, Delivered(t))
           exc == _decode_exc(frame)
           r == Validator(frame.map)
       IN  /\ cur' = [cur EXCEPT ![t] = [frame |-> frame, seq |-> i]]
           /\ IF exc # "none" THEN Raise(t, i, exc, h)
              ELSE IF _validated(r)
              THEN /\ pc' = [pc EXCEPT ![t] = IF _single_source THEN "callback" ELSE "acquire"]
                   /\ hist' = h
              ELSE IF _inner_catches(r.exc)
              THEN /\ pc' = [pc EXCEPT ![t] = "idle"]
                   /\ hist' = _log(h, i, "warning", "Message failed validation")
              ELSE Raise(t, i, r.exc, h)
    /\ UNCHANGED <<runVars, emitted, sources, subjects, validator, max_age_s, build_fn, pending, now, lock,
                   completed, calls, delivered, npush, latest, lastPush>>

\* Variant of _single_arg: the callback is given payload_dict itself.
_single_arg_raw(t) == _payload_dict(t)

\* The value the single-source path hands to the callback.
_single_arg(t) == Validator(_payload_dict(t)).val

\* One more invocation of the callback for task t's frame.
Called(h, t) == [h EXCEPT ![cur[t].seq].called = @ + 1]
SeqOf(t) == cur[t].seq

\* if self._join is None: self._callback(payload); await it if awaitable.
Callback(t, outcome) ==
    /\ pc[t] = "callback"
    /\ calls' = Append(calls, [by |-> t, seq |-> cur[t].seq, arg |-> _single_arg(t)])
    /\ CASE outcome = "return" -> /\ pc' = [pc EXCEPT ![t] = "idle"]
                                  /\ hist' = Called(hist, t)
         [] outcome = "await" -> /\ pc' = [pc EXCEPT ![t] = "await"]
                                 /\ hist' = Called(hist, t)
         [] OTHER -> Raise(t, SeqOf(t), outcome, Called(hist, t))
    /\ UNCHANGED <<runVars, emitted, sources, subjects, validator, max_age_s, build_fn, pending, now, lock,
                   cur, completed, delivered, npush, latest, lastPush>>

\* Variant of Acquire: the body is entered without waiting for the lock.
Acquire_unlocked(t) ==
    /\ pc[t] = "acquire"
    /\ lock' = t
    /\ pc' = [pc EXCEPT ![t] = "push"]
    /\ UNCHANGED <<runVars, emitted, sources, subjects, validator, max_age_s, build_fn, pending, now, cur,
                   completed, hist, calls, delivered, npush, latest, lastPush>>

\* async with self._lock: entered.
Acquire(t) ==
    /\ pc[t] = "acquire"
    /\ lock = NoTask
    /\ lock' = t
    /\ pc' = [pc EXCEPT ![t] = "push"]
    /\ UNCHANGED <<runVars, emitted, sources, subjects, validator, max_age_s, build_fn, pending, now, cur,
                   completed, hist, calls, delivered, npush, latest, lastPush>>

\* completed = self._join.push(source_name, payload_dict), then the lock is left.
\* Both readings of the clock in one push fall in the same clock step.
PushStep(t) ==
    /\ pc[t] = "push"
    /\ LET src == subjects[t]
           r == push(pending, now, 0, src, _payload_dict(t))
       IN  /\ pending' = r.pending
           /\ lastPush' = PushRecord(now, src, _payload_dict(t), r)
           /\ latest' = LatestAfter(latest, src, _payload_dict(t), r)
           /\ npush' = CountAfter(npush, src, _payload_dict(t), r)
           /\ lock' = _lock_after_push(t)
           /\ IF r.exc # "none"
              THEN /\ Raise(t, SeqOf(t), r.exc, hist)
                   /\ UNCHANGED completed
              ELSE /\ completed' = [completed EXCEPT ![t] = r.out]
                   /\ pc' = [pc EXCEPT ![t] = IF r.out = << >> THEN "idle" ELSE "emit"]
                   /\ hist' = [hist EXCEPT ![cur[t].seq].pushed = TRUE]
    /\ UNCHANGED <<runVars, emitted, sources, subjects, validator, max_age_s, build_fn, now, cur, calls,
                   delivered>>

\* The loop `for merged in completed` moves on after one merged payload.
NextMerged(t, h) ==
    /\ completed' = [completed EXCEPT ![t] = IF @ = << >> THEN @ ELSE Tail(@)]
    /\ pc' = [pc EXCEPT ![t] = IF Len(completed[t]) > 1 THEN "emit" ELSE "idle"]
    /\ hist' = h

\* The value the join path hands to the callback.
_joined_arg(t) == Validator(Head(completed[t])).val

\* self._callback(self._validator(merged)), awaited if awaitable, in its try.
Emit(t, outcome) ==
    /\ pc[t] = "emit"
    /\ LET v == Validator(Head(completed[t]))
           warning == "Joined message failed validation"
       IN  IF v.exc # "none"
           THEN /\ outcome = "return"
                /\ UNCHANGED calls
                /\ IF _inner_catches(v.exc)
                   THEN NextMerged(t, _log(hist, SeqOf(t), "warning", warning))
                   ELSE /\ Raise(t, SeqOf(t), v.exc, hist)
                        /\ UNCHANGED completed
           ELSE /\ calls' = Append(calls, [by |-> t, seq |-> cur[t].seq, arg |-> _joined_arg(t)])
                /\ CASE outcome = "return" -> NextMerged(t, Called(hist, t))
                     [] outcome = "await" -> /\ pc' = [pc EXCEPT ![t] = "await"]
                                             /\ hist' = Called(hist, t)
                                             /\ UNCHANGED completed
                     [] _inner_catches(outcome) ->
                            NextMerged(t, _log(Called(hist, t), SeqOf(t), "warning", warning))
                     [] OTHER -> /\ Raise(t, SeqOf(t), outcome, Called(hist, t))
                                 /\ UNCHANGED completed
    /\ UNCHANGED <<runVars, emitted, sources, subjects, validator, max_age_s, build_fn, pending, now, lock,
                   cur, delivered, npush, latest, lastPush>>

\* An awaited callback finishes.
Resume(t, outcome) ==
    /\ pc[t] = "await"
    /\ CASE outcome = "return" -> NextMerged(t, hist)
         [] ~_single_source /\ _inner_catches(outcome) ->
                NextMerged(t, _log(hist, SeqOf(t), "warning", "Joined message failed validation"))
         [] OTHER -> /\ Raise(t, SeqOf(t), outcome, hist)
                     /\ UNCHANGED completed
    /\ UNCHANGED <<runVars, emitted, sources, subjects, validator, max_age_s, build_fn, pending, now, lock,
                   cur, calls, delivered, npush, latest, lastPush>>

-----------------------------------------------------------------------------
(* Spec: one pipeline and its delivery tasks.                              *)

SingleSubjects == ("foo" :> "source")
JoinSubjects == ("raw" :> "raw") @@ ("enriched" :> "enriched")

Init ==
    /\ \/ sources = <<"source">> /\ subjects = SingleSubjects
       \/ sources = <<"raw", "enriched">> /\ subjects = JoinSubjects
    /\ validator \in Validators
    /\ max_age_s = DefaultMaxAge
    /\ build_fn = "pipeline"
    /\ pending = EmptyMap
    /\ now = 0
    /\ lock = NoTask
    /\ pc = [t \in Tasks |-> "idle"]
    /\ cur = [t \in Tasks |-> [frame |-> NoFrame, seq |-> 0]]
    /\ completed = [t \in Tasks |-> << >>]
    /\ hist = << >>
    /\ calls = << >>
    /\ delivered = 0
    /\ npush = [k \in KeyValues |-> EmptyMap]
    /\ latest = [k \in KeyValues |-> EmptyMap]
    /\ lastPush = NoPush
    /\ emitted = [k \in KeyValues |-> 0]
    /\ NoRun

Next ==
    \/ \E t \in Tasks, f \in Frames : Deliver(t, f)
    \/ \E t \in Tasks, o \in CallOutcomes : Callback(t, o)
    \/ \E t \in Tasks : Acquire(t)
    \/ \E t \in Tasks : PushStep(t)
    \/ \E t \in Tasks, o \in CallOutcomes : Emit(t, o)
    \/ \E t \in Tasks, o \in AwaitOutcomes : Resume(t, o)
    \/ Tick(TickLen, TickLen * MaxTicks)

Spec == Init /\ [][Next]_vars

-----------------------------------------------------------------------------
(* SpecJoinFair: the delivery tasks of a two-source join under the         *)
(* scheduling of the event loop.  asyncio.Lock wakes its waiters in the    *)
(* order they arrived, so a task waiting for the lock gets it once it has  *)
(* been released often enough; push does not suspend, so a task that has   *)
(* entered it finishes it.                                                 *)

JoinTasks == {"raw", "enriched"}

InitJoin ==
    /\ sources = <<"raw", "enriched">>
    /\ subjects = JoinSubjects
    /\ validator = "identity"
    /\ max_age_s = DefaultMaxAge
    /\ build_fn = "pipeline"
    /\ pending = EmptyMap
    /\ now = 0
    /\ lock = NoTask
    /\ pc = [t \in Tasks |-> "idle"]
    /\ cur = [t \in Tasks |-> [frame |-> NoFrame, seq |-> 0]]
    /\ completed = [t \in Tasks |-> << >>]
    /\ hist = << >>
    /\ calls = << >>
    /\ delivered = 0
    /\ npush = [k \in KeyValues |-> EmptyMap]
    /\ latest = [k \in KeyValues |-> EmptyMap]
    /\ lastPush = NoPush
    /\ emitted = [k \in KeyValues |-> 0]
    /\ NoRun

\* The frames delivered here all decode to a mapping: fragments with the join
\* key of the pipeline, and fragments whose join key is missing or illegal.
JoinFrames == {MapFrame(p) : p \in PipelinePayloads \cap (OverPayloads \cup UnkeyedPayloads)}

NextJoin ==
    \/ \E t \in Tasks, f \in JoinFrames : Deliver(t, f)
    \/ \E t \in Tasks : Acquire(t)
    \/ \E t \in Tasks : PushStep(t)
    \/ \E t \in Tasks, o \in CallOutcomes : Emit(t, o)
    \/ \E t \in Tasks, o \in AwaitOutcomes : Resume(t, o)

FairJoin == \A t \in JoinTasks : SF_vars(Acquire(t)) /\ WF_vars(PushStep(t))

SpecJoinFair == InitJoin /\ [][NextJoin]_vars /\ FairJoin

-----------------------------------------------------------------------------
(* SpecFanInJoin: a two-source join whose source raw has two topics, and   *)
(* so two subscribed subjects bound to the one handler of raw.             *)

FanInJoinSubjects == ("raw.a" :> "raw") @@ ("raw.b" :> "raw") @@ ("enriched" :> "enriched")

\* The frames delivered here are fragments with the join key of the pipeline.
FanInJoinFrames == {MapFrame(p) : p \in PipelinePayloads \cap OverPayloads}

InitFanInJoin ==
    /\ sources = <<"raw", "enriched">>
    /\ subjects = FanInJoinSubjects
    /\ validator = "identity"
    /\ max_age_s = DefaultMaxAge
    /\ build_fn = "pipeline"
    /\ pending = EmptyMap
    /\ now = 0
    /\ lock = NoTask
    /\ pc = [t \in Tasks |-> "idle"]
    /\ cur = [t \in Tasks |-> [frame |-> NoFrame, seq |-> 0]]
    /\ completed = [t \in Tasks |-> << >>]
    /\ hist = << >>
    /\ calls = << >>
    /\ delivered = 0
    /\ npush = [k \in KeyValues |-> EmptyMap]
    /\ latest = [k \in KeyValues |-> EmptyMap]
    /\ lastPush = NoPush
    /\ emitted = [k \in KeyValues |-> 0]
    /\ NoRun

NextFanInJoin ==
    \/ \E t \in Tasks, f \in FanInJoinFrames : Deliver(t, f)
    \/ \E t \in Tasks : Acquire(t)
    \/ \E t \in Tasks : PushStep(t)
    \/ \E t \in Tasks, o \in CallOutcomes : Emit(t, o)
    \/ \E t \in Tasks, o \in AwaitOutcomes : Resume(t, o)

SpecFanInJoin == InitFanInJoin /\ [][NextFanInJoin]_vars

-----------------------------------------------------------------------------
(* SpecFanIn: a single-source pipeline whose source has two topics, and so *)
(* two subscribed subjects, each with its own delivery task.               *)

FanInSubjects == ("foo" :> "source") @@ ("bar" :> "source")

InitFanIn ==
    /\ sources = <<"source">>
    /\ subjects = FanInSubjects
    /\ validator \in Validators
    /\ max_age_s = DefaultMaxAge
    /\ build_fn = "pipeline"
    /\ pending = EmptyMap
    /\ now = 0
    /\ lock = NoTask
    /\ pc = [t \in Tasks |-> "idle"]
    /\ cur = [t \in Tasks |-> [frame |-> NoFrame, seq |-> 0]]
    /\ completed = [t \in Tasks |-> << >>]
    /\ hist = << >>
    /\ calls = << >>
    /\ delivered = 0
    /\ npush = [k \in KeyValues |-> EmptyMap]
    /\ latest = [k \in KeyValues |-> EmptyMap]
    /\ lastPush = NoPush
    /\ emitted = [k \in KeyValues |-> 0]
    /\ NoRun

NextFanIn ==
    \/ \E t \in Tasks, f \in Frames : Deliver(t, f)
    \/ \E t \in Tasks, o \in CallOutcomes : Callback(t, o)
    \/ \E t \in Tasks, o \in AwaitOutcomes : Resume(t, o)

SpecFanIn == InitFanIn /\ [][NextFanIn]_vars

-----------------------------------------------------------------------------
(* Subscriber.run (subscriber.py) and JoinPipeline.__call__ (_pipelines.py).*)

\* A topic nats://host:port/path; the path is kept as its segments, with
\* "/" for every slash.
Topic(host, port, path) == [host |-> host, port |-> port, path |-> path]
Source(name, topics) == [name |-> name, topics |-> topics]

\* The sources a pipeline is registered with.
SingleCfg == <<Source("source", <<Topic("localhost", DefaultPort, <<"/", "foo">>)>>)>>
JoinCfg ==
    <<Source("raw", <<Topic("localhost", DefaultPort, <<"/", "raw">>)>>),
      Source("enriched", <<Topic("localhost", DefaultPort, <<"/", "enriched">>)>>)>>
TwoTopicsCfg ==
    <<Source("source", <<Topic("localhost", DefaultPort, <<"/", "s">>),
                         Topic("localhost", DefaultPort, <<"/", "/", "t">>)>>)>>
TwoHostsCfg ==
    <<Source("source", <<Topic("a", DefaultPort, <<"/", "s">>),
                         Topic("b", DefaultPort, <<"/", "s">>)>>)>>
TwoHostsJoinCfg ==
    <<Source("raw", <<Topic("a", DefaultPort, <<"/", "raw">>)>>),
      Source("enriched", <<Topic("b", DefaultPort, <<"/", "enriched">>)>>)>>
TwoPortsJoinCfg ==
    <<Source("raw", <<Topic("a", DefaultPort, <<"/", "raw">>)>>),
      Source("enriched", <<Topic("a", DefaultPort + 1, <<"/", "enriched">>)>>)>>
NoSubjectCfg ==
    <<Source("raw", <<Topic("localhost", DefaultPort, <<"/", "raw">>)>>),
      Source("enriched", <<Topic("localhost", DefaultPort, <<"/">>)>>)>>

PipelineCfgs == {SingleCfg, JoinCfg, TwoTopicsCfg, TwoHostsCfg, TwoHostsJoinCfg,
                 TwoPortsJoinCfg, NoSubjectCfg}

\* f"{topic.scheme or 'nats'}://{host}:{topic.port or 4222}"
_server(t) == <<"nats", t.host, IF t.port = 0 THEN DefaultPort ELSE t.port>>

\* (topic.path or "").lstrip("/")
RECURSIVE lstrip(_)
lstrip(path) ==
    IF path # << >> /\ Head(path) = "/" THEN lstrip(Tail(path)) ELSE path

\* _subject(topic): the exception it raises, or "none"; and its value.
_subject_exc(t) == IF lstrip(t.path) = << >> THEN "ValueError" ELSE "none"
_subject(t) == lstrip(t.path)

\* for source_name, topics in self._sources.items(): for t in topics: ...
\* The topics in the order of the loops, each with its source's name.
RECURSIVE _items(_)
_items(cfg) ==
    IF cfg = << >> THEN << >>
    ELSE [i \in 1..Len(Head(cfg).topics) |->
             [source |-> Head(cfg).name, topic |-> Head(cfg).topics[i]]]
         \o _items(Tail(cfg))

\* Variant of _servers: only the first source's topics are looked at.
_servers_first_source(cfg) == {_server(Head(cfg).topics[i]) : i \in 1..Len(Head(cfg).topics)}

\* servers = {_server(t) for t in all_topics}
_servers(cfg) == {_server(_items(cfg)[i].topic) : i \in 1..Len(_items(cfg))}

\* Variant of _run_asserts: the second assertion is missing.
_run_asserts_nonempty(n) == n > 0

\* assert len(self._pipelines) > 0; assert len(self._pipelines) == 1
_run_asserts(n) == n > 0 /\ n = 1

\* Variant of _mk_handler: every handler sees the loop variable's last value.
_mk_handler_late(cfg, source_name) == cfg[Len(cfg)].name

\* handler = _mk_handler(source_name): the source name the handler is bound to.
_mk_handler(cfg, source_name) == source_name

\* One call on the broker client (or nats.connect), as the trace records it.
BrokerCall(op, arg, cb) == [op |-> op, arg |-> arg, cb |-> cb]

\* How an awaited broker call may end.
BrokerOutcomes == {"ok", "ConnectionError", "CancelledError"}
\* How the idle wait ends: by cancellation only.
WaitOutcomes == {"CancelledError", "KeyboardInterrupt"}

\* pipeline = self._pipelines[0]
_pipeline == pipelines[1]

\* run (or the pipeline under it) raises exc: nothing below catches it but
\* to log it and raise it again, and nothing closes the connection.
RunRaises(exc) ==
    /\ raised' = exc
    /\ rpc' = "ended"

\* Subscriber.run up to asyncio.run(pipeline()).
Run ==
    /\ rpc = "run"
    /\ IF _run_asserts(Len(pipelines))
       THEN /\ invoked' = [invoked EXCEPT ![1] = @ + 1]
            /\ rpc' = "servers"
            /\ UNCHANGED raised
       ELSE /\ RunRaises("AssertionError")
            /\ UNCHANGED invoked
    /\ UNCHANGED <<joinVars, lastCall, pipelines, nc, trace>>

\* __call__: the servers of all the topics must be one.
CheckServers ==
    /\ rpc = "servers"
    /\ IF Cardinality(_servers(_pipeline)) # 1
       THEN RunRaises("NotImplementedError")
       ELSE rpc' = "connect" /\ UNCHANGED raised
    /\ UNCHANGED <<joinVars, lastCall, pipelines, invoked, nc, trace>>

\* self._nc = await nats.connect(server)
Connect(outcome) ==
    /\ rpc = "connect"
    /\ trace' = Append(trace, BrokerCall("connect", CHOOSE v \in _servers(_pipeline) : TRUE, ""))
    /\ IF outcome = "ok"
       THEN nc' = "open" /\ rpc' = "subscribe" /\ UNCHANGED raised
       ELSE RunRaises(outcome) /\ UNCHANGED nc
    /\ UNCHANGED <<joinVars, lastCall, pipelines, invoked>>

\* The subscriptions made so far.
_subscribed == Len(trace) - 1

\* subject = _subject(t); await self._nc.subscribe(subject, cb=handler)
Subscribe(outcome) ==
    /\ rpc = "subscribe"
    /\ _subscribed < Len(_items(_pipeline))
    /\ LET item == _items(_pipeline)[_subscribed + 1]
       IN  IF _subject_exc(item.topic) # "none"
           THEN /\ outcome = "ok"
                /\ RunRaises(_subject_exc(item.topic))
                /\ UNCHANGED trace
           ELSE /\ trace' = Append(trace, BrokerCall("subscribe", _subject(item.topic),
                                                      _mk_handler(_pipeline, item.source)))
                /\ IF outcome = "ok" THEN UNCHANGED <<rpc, raised>> ELSE RunRaises(outcome)
    /\ UNCHANGED <<joinVars, lastCall, pipelines, invoked, nc>>

\* await self._nc.flush(), after the loops.
Flush(outcome) ==
    /\ rpc = "subscribe"
    /\ _subscribed = Len(_items(_pipeline))
    /\ trace' = Append(trace, BrokerCall("flush", << >>, ""))
    /\ IF outcome = "ok" THEN rpc' = "wait" /\ UNCHANGED raised ELSE RunRaises(outcome)
    /\ UNCHANGED <<joinVars, lastCall, pipelines, invoked, nc>>

\* await asyncio.Event().wait() is cancelled from outside.
Cancel(outcome) ==
    /\ rpc = "wait"
    /\ RunRaises(outcome)
    /\ UNCHANGED <<joinVars, lastCall, pipelines, invoked, nc, trace>>

\* The sequences of at most n registered pipelines.
RECURSIVE Registered(_)
Registered(n) ==
    IF n = 0 THEN {<< >>}
    ELSE Registered(n - 1) \cup
         {Append(q, c) : q \in {r \in Registered(n - 1) : Len(r) = n - 1}, c \in PipelineCfgs}

InitRun ==
    /\ sources = << >>
    /\ subjects = EmptyMap
    /\ validator = "identity"
    /\ max_age_s = DefaultMaxAge
    /\ build_fn = "pipeline"
    /\ pending = EmptyMap
    /\ now = 0
    /\ lock = NoTask
    /\ pc = EmptyMap
    /\ cur = EmptyMap
    /\ completed = EmptyMap
    /\ hist = << >>
    /\ calls = << >>
    /\ delivered = 0
    /\ npush = [k \in KeyValues |-> EmptyMap]
    /\ latest = [k \in KeyValues |-> EmptyMap]
    /\ lastPush = NoPush
    /\ emitted = [k \in KeyValues |-> 0]
    /\ pipelines \in Registered(MaxPipelines)
    /\ invoked = [i \in 1..Len(pipelines) |-> 0]
    /\ rpc = "run"
    /\ nc = "none"
    /\ trace = << >>
    /\ raised = "none"
    /\ lastCall = NoCall

NextRun ==
    \/ Run
    \/ CheckServers
    \/ \E o \in BrokerOutcomes : Connect(o)
    \/ \E o \in BrokerOutcomes : Subscribe(o)
    \/ \E o \in BrokerOutcomes : Flush(o)
    \/ \E o \in WaitOutcomes : Cancel(o)

SpecRun == InitRun /\ [][NextRun]_vars

-----------------------------------------------------------------------------
(* SpecSubscribe: Subscriber.subscribe, its decorator and the constructor  *)
(* of JoinPipeline, followed by Subscriber.run.                            *)

\* The values given as key: None, a str, and something that is no str.
StrKey == Val("str", "msg_uuid")
IntKey == Val("int", "7")
Keys == {NoneVal, StrKey, IntKey}

\* Topics: two good ones, two without a subject (the path is only a slash,
\* the path is empty), one without a host.
FooTopic == Topic("localhost", DefaultPort, <<"/", "foo">>)
BarTopic == Topic("localhost", DefaultPort, <<"/", "bar">>)
NoSubjectTopic == Topic("localhost", DefaultPort, <<"/">>)
EmptyPathTopic == Topic("localhost", DefaultPort, << >>)
NoHostTopic == Topic("", DefaultPort, <<"/", "foo">>)

\* The positional topics, and the named sources, of a call of subscribe.
PositionalArgs ==
    {<< >>, <<FooTopic>>, <<FooTopic, BarTopic>>, <<NoSubjectTopic>>, <<EmptyPathTopic>>,
     <<NoHostTopic>>}
NamedArgs ==
    {<< >>,
     <<Source("raw", <<FooTopic>>)>>,
     <<Source("raw", <<FooTopic, BarTopic>>)>>,
     <<Source("raw", <<FooTopic>>), Source("enriched", <<BarTopic>>)>>,
     <<Source("raw", << >>)>>}

\* The sources mappings given to the constructor directly.
ConstructArgs ==
    NamedArgs \cup {<<Source("raw", <<NoSubjectTopic>>)>>, <<Source("raw", <<NoHostTopic>>)>>}

\* n_sources = len(sources) if sources else (len(topics) if topics else 0)
n_sources(topics, named) == IF named # << >> THEN Len(named) ELSE Len(topics)

\* Variant of subscribe_exc: topics and sources together are let through.
subscribe_exc_mixed(topics, named, key) ==
    IF n_sources(topics, named) > 1
    THEN IF key = NoneVal \/ key.t # "str" THEN "TypeError" ELSE "none"
    ELSE IF key # NoneVal /\ key.t # "str" THEN "TypeError" ELSE "none"

\* The exception Subscriber.subscribe raises on these arguments, or "none".
subscribe_exc(topics, named, key) ==
    IF topics # << >> /\ named # << >> THEN "TypeError"
    ELSE IF n_sources(topics, named) > 1
    THEN IF key = NoneVal THEN "TypeError"
         ELSE IF key.t # "str" THEN "TypeError" ELSE "none"
    ELSE IF key # NoneVal /\ key.t # "str" THEN "TypeError" ELSE "none"

\* srcs of subscribe_decorator: dict(sources), or {"source": list(topics)}.
_srcs(topics, named) == IF named # << >> THEN named ELSE <<Source("source", topics)>>

\* topic(t) = TypeAdapter(Topic).validate_python(t): scheme nats, host required.
_topic_exc(t) == IF t.host = "" THEN "ValidationError" ELSE "none"

\* The exception raised by the validation of the topics of srcs, or "none".
_topics_exc(srcs) ==
    IF \E i \in 1..Len(srcs) : \E j \in 1..Len(srcs[i].topics) : _topic_exc(srcs[i].topics[j]) # "none"
    THEN "ValidationError" ELSE "none"

\* Variant of _init_exc: the key's type is not looked at when joining.
_init_exc_key_unchecked(srcs, key) ==
    IF srcs = << >> THEN "ValueError"
    ELSE IF _topics_exc(srcs) # "none" THEN _topics_exc(srcs)
    ELSE IF Len(srcs) = 1
    THEN IF key # NoneVal /\ key.t # "str" THEN "TypeError" ELSE "none"
    ELSE IF key = NoneVal THEN "TypeError" ELSE "none"

\* Variant of _init_exc: the test `if not sources` is missing.
_init_exc_no_sources_test(srcs, key) ==
    IF _topics_exc(srcs) # "none" THEN _topics_exc(srcs)
    ELSE IF Len(srcs) = 1
    THEN IF key # NoneVal /\ key.t # "str" THEN "TypeError" ELSE "none"
    ELSE IF key = NoneVal \/ key.t # "str" THEN "TypeError" ELSE "none"

\* The exception JoinPipeline.__init__ raises, or "none".
_init_exc(srcs, key) ==
    IF srcs = << >> THEN "ValueError"
    ELSE IF _topics_exc(srcs) # "none" THEN _topics_exc(srcs)
    ELSE IF Len(srcs) = 1
    THEN IF key # NoneVal /\ key.t # "str" THEN "TypeError" ELSE "none"
    ELSE IF key = NoneVal THEN "TypeError"
         ELSE IF key.t # "str" THEN "TypeError" ELSE "none"

Call(op, topics, named, key, exc) ==
    [op |-> op, topics |-> topics, sources |-> named, key |-> key, exc |-> exc]

\* sub.subscribe(*topics, validator=..., key=key, **named), before run.
SubscribeCall(topics, named, key) ==
    /\ rpc = "run"
    /\ Len(pipelines) < MaxPipelines
    /\ lastCall' = Call("subscribe", topics, named, key, subscribe_exc(topics, named, key))
    /\ UNCHANGED <<joinVars, pipelines, invoked, rpc, nc, trace, raised>>

\* The decorator subscribe returned is applied to the callback: the pipeline
\* is built and, unless its constructor raises, registered.
Decorate ==
    /\ rpc = "run"
    /\ lastCall.op = "subscribe" /\ lastCall.exc = "none"
    /\ LET srcs == _srcs(lastCall.topics, lastCall.sources)
           exc == _init_exc(srcs, lastCall.key)
       IN  /\ lastCall' = [lastCall EXCEPT !.op = "decorator", !.exc = exc]
           /\ IF exc = "none"
              THEN /\ pipelines' = Append(pipelines, srcs)
                   /\ invoked' = Append(invoked, 0)
              ELSE UNCHANGED <<pipelines, invoked>>
    /\ UNCHANGED <<joinVars, rpc, nc, trace, raised>>

\* JoinPipeline(srcs, validator, callback, key=key), built directly.
Construct(srcs, key) ==
    /\ rpc = "run"
    /\ lastCall' = Call("construct", << >>, srcs, key, _init_exc(srcs, key))
    /\ UNCHANGED <<joinVars, pipelines, invoked, rpc, nc, trace, raised>>

InitSubscribe ==
    /\ sources = << >>
    /\ subjects = EmptyMap
    /\ validator = "identity"
    /\ max_age_s = DefaultMaxAge
    /\ build_fn = "pipeline"
    /\ pending = EmptyMap
    /\ now = 0
    /\ lock = NoTask
    /\ pc = EmptyMap
    /\ cur = EmptyMap
    /\ completed = EmptyMap
    /\ hist = << >>
    /\ calls = << >>
    /\ delivered = 0
    /\ npush = [k \in KeyValues |-> EmptyMap]
    /\ latest = [k \in KeyValues |-> EmptyMap]
    /\ lastPush = NoPush
    /\ emitted = [k \in KeyValues |-> 0]
    /\ pipelines = << >>
    /\ invoked = << >>
    /\ rpc = "run"
    /\ nc = "none"
    /\ trace = << >>
    /\ raised = "none"
    /\ lastCall = NoCall

NextSubscribe ==
    \/ \E tp \in PositionalArgs, nm \in NamedArgs, k \in Keys : SubscribeCall(tp, nm, k)
    \/ Decorate
    \/ \E nm \in ConstructArgs, k \in Keys : Construct(nm, k)
    \/ Run
    \/ CheckServers
    \/ \E o \in BrokerOutcomes : Connect(o)
    \/ \E o \in BrokerOutcomes : Subscribe(o)
    \/ \E o \in BrokerOutcomes : Flush(o)
    \/ \E o \in WaitOutcomes : Cancel(o)

SpecSubscribe == InitSubscribe /\ [][NextSubscribe]_vars

-----------------------------------------------------------------------------
(* Vocabulary of the properties.                                           *)

\* The overlay of the fragments in source-declaration order, stated field by
\* field: a field has the value of the last declared source that carries it.
LastSourceWith(parts, f) ==
    CHOOSE i \in 1..Len(sources) :
        /\ sources[i] \in DOMAIN parts /\ f \in DOMAIN parts[sources[i]]
        /\ \A j \in (i + 1)..Len(sources) :
               ~(sources[j] \in DOMAIN parts /\ f \in DOMAIN parts[sources[j]])

OverlayInDeclaredOrder(parts) ==
    [f \in UNION {DOMAIN parts[s] : s \in DOMAIN parts} |->
        parts[sources[LastSourceWith(parts, f)]][f]]

\* The latest fragment of every source for key k.
LatestParts(k) == [s \in DOMAIN latest[k] |-> latest[k][s].payload]

\* The callback invocations whose argument carries join key k.
CallsFor(k) == {i \in DOMAIN calls : calls[i].arg[KeyField] = k}

\* The join key of the last push.
LastKey == lastPush.payload[KeyField]

\* No task stands between a completed push and its callback.
NoEmitPending == \A t \in Tasks : pc[t] # "emit"

\* A frame the handler cannot turn into payload_dict.
FailsCoercion(frame) == frame.kind # "map" \/ \E k \in DOMAIN frame.map : k \in BytesKeys

-----------------------------------------------------------------------------
(* C1: in a multi-source pipeline with an accepting validator, the handler  *)
(* is not invoked for a key while a source has pushed no fragment for it,   *)
(* and once every source has pushed exactly one (all within the TTL) it has *)
(* been invoked exactly once, with the merged payload.                      *)
C1_HandlerOnceWhenLastSourceArrives ==
    (~_single_source /\ validator = "identity") =>
        \A k \in KeyValues :
            /\ (\E s \in _required_sources : Get0(npush[k], s) = 0) => CallsFor(k) = {}
            /\ ( /\ \A s \in _required_sources : Get0(npush[k], s) = 1
                 /\ now <= max_age_s
                 /\ NoEmitPending )
               => /\ Cardinality(CallsFor(k)) = 1
                  /\ \A i \in CallsFor(k) : calls[i].arg = OverlayInDeclaredOrder(LatestParts(k))

\* Both sources delivered one fragment, the second a clock step after the first.
C1_Witness ==
    /\ ~_single_source /\ validator = "identity"
    /\ \A s \in _required_sources : Get0(npush[PipelineKey], s) = 1
    /\ Len(calls) = 1
    /\ lastPush.at > lastPush.created_at

(* C2: the merged payload of a completed join is the overlay of the         *)
(* fragments in source-declaration order (union of the keys, last declared  *)
(* source wins), whatever the arrival order.                                *)
C2_MergedIsDeclaredOrderOverlay ==
    lastPush.out # << >> =>
        /\ lastPush.out[1] = OverlayInDeclaredOrder(LatestParts(LastKey))
        /\ DOMAIN lastPush.out[1] =
               UNION {DOMAIN latest[LastKey][s].payload : s \in _required_sources}

\* The first declared source arrived last, and lost the conflicting field.
C2_Witness ==
    /\ lastPush.out # << >>
    /\ lastPush.src = sources[1]
    /\ Len(sources) = 2
    /\ "over" \in DOMAIN latest[LastKey][sources[1]].payload
    /\ "over" \in DOMAIN latest[LastKey][sources[2]].payload
    /\ latest[LastKey][sources[1]].payload.over # latest[LastKey][sources[2]].payload.over
    /\ lastPush.out[1].over = latest[LastKey][sources[2]].payload.over

(* C3: a push that stores its payload returns one merged payload exactly    *)
(* when the entry then holds a fragment of every required source, the empty *)
(* list otherwise, and never more than one.                                 *)
C3_PushReturnsOneIffComplete ==
    (lastPush.src # "" /\ lastPush.exc = "none") =>
        /\ Len(lastPush.out) <= 1
        /\ lastPush.src \in DOMAIN lastPush.parts
        /\ lastPush.parts[lastPush.src] = lastPush.payload
        /\ (Len(lastPush.out) = 1) <=> (_required_sources \subseteq DOMAIN lastPush.parts)

\* The second source of a two-source join completed an entry.
C3_Witness ==
    /\ Len(sources) = 2
    /\ Len(lastPush.out) = 1
    /\ ~lastPush.fresh

(* C4: a slot holds the latest fragment its source pushed for the key, and  *)
(* when a source pushed several fragments before the others arrived, one    *)
(* merged payload is emitted for the key.                                   *)
C4_LaterFragmentReplaces ==
    /\ \A k \in DOMAIN pending : \A s \in DOMAIN pending[k].parts :
           s \in DOMAIN latest[k] /\ pending[k].parts[s] = latest[k][s].payload
    /\ lastPush.exc = "none" =>
           \A s \in DOMAIN lastPush.parts :
               lastPush.parts[s] = latest[LastKey][s].payload
    /\ (~_single_source /\ validator = "identity") =>
           \A k \in KeyValues :
               ( /\ \A s \in _required_sources : Get0(npush[k], s) >= 1
                 /\ \E s \in _required_sources : Get0(npush[k], s) = 1
                 /\ now <= max_age_s
                 /\ NoEmitPending )
               => Cardinality(CallsFor(k)) = 1

\* One source pushed twice, then the other completed the join.
C4_Witness ==
    /\ ~_single_source /\ validator = "identity"
    /\ Get0(npush[PipelineKey], "raw") = 2
    /\ Get0(npush[PipelineKey], "enriched") = 1
    /\ lastPush.src = "enriched"
    /\ lastPush.out # << >>
    /\ Len(calls) = 1

(* C5: no exception of class Exception leaves the handler: once it is       *)
(* logged the handler has returned and does not hold the lock.              *)
C5_ExceptionsNeverEscape ==
    /\ \A i \in DOMAIN hist : hist[i].escaped \notin ExceptionClasses
    /\ \A t \in Tasks :
           (cur[t].seq > 0 /\ hist[cur[t].seq].log = "error") => (pc[t] = "idle" /\ lock # t)

\* A frame ended in the error log, and a later frame of the same subject
\* reached the callback.
C5_Witness ==
    \E i, j \in DOMAIN hist :
        /\ i < j
        /\ hist[i].by = hist[j].by
        /\ hist[i].log = "error"
        /\ hist[j].called = 1

(* C6: a frame that fails coercion, or whose payload the validator rejects, *)
(* causes no handler invocation.                                            *)
C6_DroppedFrameNeverDispatched ==
    \A t \in Tasks :
        ( /\ cur[t].seq > 0
          /\ \/ FailsCoercion(cur[t].frame)
             \/ Validator(cur[t].frame.map).exc # "none" )
        => /\ hist[cur[t].seq].called = 0
           /\ \A j \in DOMAIN calls : calls[j].seq # cur[t].seq

\* A frame was dropped by the validator and a later frame was dispatched.
C6_Witness ==
    \E i, j \in DOMAIN hist :
        /\ i < j
        /\ hist[i].msg = "Message failed validation"
        /\ hist[i].called = 0
        /\ hist[j].called = 1

(* C7: a single-source pipeline has no defragmenter and retains nothing;    *)
(* the frame of a decodable payload p that the validator accepts leads to   *)
(* one handler invocation, with validator(p), while it is processed.        *)
C7_SingleSourceDispatchesOnce ==
    _single_source =>
        /\ pending = EmptyMap /\ lastPush = NoPush /\ lock = NoTask
        /\ \A t \in Tasks : completed[t] = << >>
        /\ \A i \in DOMAIN hist : hist[i].called <= 1
        /\ \A t \in Tasks :
               ( /\ cur[t].seq > 0
                 /\ ~FailsCoercion(cur[t].frame)
                 /\ Validator(cur[t].frame.map).exc = "none"
                 /\ pc[t] # "callback" )
               => /\ hist[cur[t].seq].called = 1
                  /\ Cardinality({j \in DOMAIN calls : calls[j].seq = cur[t].seq}) = 1
                  /\ \A j \in DOMAIN calls :
                         calls[j].seq = cur[t].seq
                             => calls[j].arg = Validator(cur[t].frame.map).val

\* The schema validator accepted a frame and the handler has returned.
C7_Witness ==
    /\ _single_source /\ validator = "schema"
    /\ \E t \in Tasks : pc[t] = "idle" /\ cur[t].seq > 0 /\ hist[cur[t].seq].called = 1

(* C8: in a multi-source pipeline every decodable fragment with a legal     *)
(* join key is pushed to the defragmenter, also when the validator would    *)
(* reject the fragment taken alone.                                         *)
C8_EveryKeyedFragmentIsPushed ==
    ~_single_source =>
        \A t \in Tasks :
            ( /\ cur[t].seq > 0
              /\ pc[t] = "idle"
              /\ ~FailsCoercion(cur[t].frame)
              /\ _extract_key_exc(cur[t].frame.map) = "none" )
            => hist[cur[t].seq].pushed

(* C9: a task that holds the pipeline lock is inside push; no task runs the *)
(* validator or the handler while it holds the lock.                        *)
C9_LockHeldOnlyAroundPush ==
    /\ lock \in Tasks \cup {NoTask}
    /\ \A t \in Tasks : lock = t => pc[t] = "push"

\* One task is inside push while another is in the handler.
C9_Witness ==
    \E t, u \in Tasks : lock = t /\ pc[t] = "push" /\ pc[u] \in {"emit", "await"}

(* C10: with max_age_s > 0 no merged payload is emitted from an entry       *)
(* created more than max_age_s before the completing push, nor holds a      *)
(* fragment older than that; a fragment that finds a stale entry for its    *)
(* key starts a new entry instead of completing the stale one.              *)
C10_NoStaleState ==
    (max_age_s > 0 /\ lastPush.out # << >>) =>
        /\ lastPush.at - lastPush.created_at <= max_age_s
        /\ \A s \in _required_sources :
               /\ latest[LastKey][s].at >= lastPush.created_at
               /\ lastPush.at - latest[LastKey][s].at <= max_age_s

C10_StaleStep ==
    \A k \in DOMAIN pending :
        ( /\ max_age_s > 0
          /\ delivered' = delivered + 1
          /\ now - pending[k].created_at > max_age_s
          /\ lastPush'.exc = "none"
          /\ lastPush'.payload[KeyField] = k )
        => /\ lastPush'.fresh
           /\ lastPush'.created_at >= now
           /\ DOMAIN lastPush'.parts = {lastPush'.src}
           /\ Len(sources) > 1 => lastPush'.out = << >>

C10_NoStaleJoin == []C10_NoStaleState /\ [][C10_StaleStep]_vars

\* The second source arrived after the TTL of the first fragment's entry and
\* started a new entry.
C10_Witness ==
    /\ max_age_s > 0
    /\ Len(sources) = 2
    /\ delivered = 2
    /\ lastPush.exc = "none" /\ lastPush.fresh /\ lastPush.out = << >>
    /\ \E s \in DOMAIN latest[LastKey] :
           s # lastPush.src /\ lastPush.at - latest[LastKey][s].at > max_age_s

(* C11: with max_age_s > 0 a push first removes every entry, of whatever    *)
(* key, whose age exceeds max_age_s; right after a push made at time t      *)
(* every remaining entry has t - created_at <= max_age_s.                   *)
C11_CleanupStep ==
    (max_age_s > 0 /\ delivered' = delivered + 1) =>
        /\ lastPush'.evicted = {k \in DOMAIN pending : now - pending[k].created_at > max_age_s}
        /\ \A k \in lastPush'.evicted :
               k \in DOMAIN pending' => pending'[k].created_at >= now
        /\ \A k \in DOMAIN pending' : lastPush'.at - pending'[k].created_at <= max_age_s

C11_PushEvictsEveryStaleEntry == [][C11_CleanupStep]_vars

\* A push for one key removed the stale entry of another key.
C11_Witness ==
    /\ max_age_s > 0
    /\ lastPush.exc = "none"
    /\ \E k \in lastPush.evicted : k # LastKey

(* C12 as stated: at every instant, an entry created more than max_age_s    *)
(* ago is absent from the pending state.                                    *)
C12_NoExpiredEntryAtAnyInstant ==
    max_age_s > 0 => \A k \in DOMAIN pending : now - pending[k].created_at <= max_age_s

(* C12 as amended: an entry created more than max_age_s ago may still be    *)
(* pending, but only until the next push: when the pending state holds an   *)
(* expired entry, no push has been made since it expired.                   *)
C12_ExpiredEntryGoneAtNextPush ==
    max_age_s > 0 =>
        \A k \in DOMAIN pending :
            now - pending[k].created_at > max_age_s
                => lastPush.at - pending[k].created_at <= max_age_s

\* An expired entry is still pending: no push was made after it expired.
C12_Witness ==
    /\ max_age_s > 0
    /\ \E k \in DOMAIN pending : now - pending[k].created_at > max_age_s

(* C13: a fragment whose key has no entry (its previous entry was evicted)  *)
(* creates an entry dated to the fragment's arrival and holding only that   *)
(* fragment; no entry and no merged payload holds a fragment stored before  *)
(* the entry's creation.                                                    *)
C13_FreshEntryAfterEviction ==
    /\ (lastPush.exc = "none" /\ lastPush.fresh) =>
           /\ lastPush.created_at >= lastPush.at
           /\ lastPush.created_at <= now
           /\ lastPush.parts = (lastPush.src :> lastPush.payload)
    /\ lastPush.out # << >> =>
           \A s \in _required_sources :
               /\ lastPush.parts[s] = latest[LastKey][s].payload
               /\ latest[LastKey][s].at >= lastPush.created_at
    /\ \A k \in DOMAIN pending : \A s \in DOMAIN pending[k].parts :
           latest[k][s].at >= pending[k].created_at

\* The other source's fragment arrived after its key's entry had gone stale:
\* the push evicted that entry and started a new one.
C13_Witness ==
    /\ Len(sources) = 2
    /\ lastPush.exc = "none" /\ lastPush.fresh
    /\ LastKey \in lastPush.evicted
    /\ lastPush.at > 0
    /\ \E s \in DOMAIN latest[LastKey] : s # lastPush.src

(* C14: with max_age_s <= 0 no entry is removed because of its age: an     *)
(* entry leaves the pending state only when its join completes, and it      *)
(* keeps its creation time.                                                 *)
C14_NoAgeStep ==
    max_age_s <= 0 =>
        /\ \A k \in DOMAIN pending :
               \/ k \in DOMAIN pending' /\ pending'[k].created_at = pending[k].created_at
               \/ lastPush'.out # << >> /\ lastPush'.payload[KeyField] = k
        /\ delivered' = delivered + 1 => lastPush'.evicted = {}

C14_EvictionDisabled == [][C14_NoAgeStep]_vars

\* With a negative max_age_s, a push was made while an entry two clock steps
\* old was pending, and the entry is still there.
C14_Witness ==
    /\ max_age_s < 0
    /\ \E k \in DOMAIN pending : lastPush.at - pending[k].created_at >= 2

\* The fewest fragments any required source has pushed for key k.
FullSets(k) ==
    CHOOSE n \in 0..MaxRejoin :
        /\ \A s \in _required_sources : Get0(npush[k], s) >= n
        /\ \E s \in _required_sources : Get0(npush[k], s) = n

(* C15: with two or more sources, the fragment that follows the emission of *)
(* its key's join emits nothing and starts a new entry holding only that    *)
(* fragment; a second full set of fragments for the key yields a second     *)
(* merged payload.                                                          *)
C15_AfterEmitStep ==
    ( /\ lastPush.out # << >>
      /\ delivered' = delivered + 1
      /\ lastPush'.exc = "none"
      /\ lastPush'.payload[KeyField] = LastKey )
    => /\ lastPush'.out = << >>
       /\ lastPush'.fresh
       /\ LastKey \in DOMAIN pending'
       /\ pending'[LastKey].parts = (lastPush'.src :> lastPush'.payload)
       /\ emitted' = emitted

C15_SecondSet ==
    \A k \in KeyValues :
        /\ emitted[k] <= FullSets(k)
        /\ ( /\ \A s \in _required_sources : Get0(npush[k], s) = 2
             /\ k \notin DOMAIN pending )
           => emitted[k] = 2

C15_FragmentAfterEmitStartsAnew == []C15_SecondSet /\ [][C15_AfterEmitStep]_vars

\* Three sources each pushed two fragments of one key, and the second set
\* completed a second join.
C15_Witness ==
    /\ Len(sources) = 3
    /\ \A s \in _required_sources : Get0(npush[RejoinKey], s) = 2
    /\ emitted[RejoinKey] = 2
    /\ lastPush.out # << >>

\* The broker endpoints (host and port) the topics of a pipeline name.
Endpoints(cfg) ==
    UNION {{<<cfg[i].topics[j].host, cfg[i].topics[j].port>> : j \in 1..Len(cfg[i].topics)} :
              i \in 1..Len(cfg)}

\* The positions (source, topic) of the topics a pipeline declares, their
\* number, and the n-th of them in declaration order, with its source.
TopicIndex(cfg) == UNION {{<<i, j>> : j \in 1..Len(cfg[i].topics)} : i \in 1..Len(cfg)}
TopicCount(cfg) == Cardinality(TopicIndex(cfg))
NthTopic(cfg, n) ==
    LET at == CHOOSE p \in TopicIndex(cfg) :
                  Cardinality({q \in TopicIndex(cfg) :
                                   q[1] < p[1] \/ (q[1] = p[1] /\ q[2] < p[2])}) = n - 1
    IN  [source |-> cfg[at[1]].name, topic |-> cfg[at[1]].topics[at[2]]]

\* The subject of a topic: its path segments after the leading slashes.
SubjectOf(t) ==
    LET first == CHOOSE i \in 1..(Len(t.path) + 1) :
                     /\ \A j \in 1..(i - 1) : t.path[j] = "/"
                     /\ i <= Len(t.path) => t.path[i] # "/"
    IN  SubSeq(t.path, first, Len(t.path))

\* The pipeline run is running, once run has passed its preconditions.
Started == rpc \notin {"run"} /\ Len(pipelines) = 1 /\ invoked[1] > 0

(* C16: when the topics of the pipeline resolve to more than one broker     *)
(* endpoint, run ends with the multi-endpoint error (NotImplementedError)   *)
(* and has made no call on the broker: no connect, no subscribe.            *)
C16_MultiEndpointFailsBeforeConnect ==
    (Started /\ Cardinality(Endpoints(pipelines[1])) > 1) =>
        /\ trace = << >>
        /\ nc = "none"
        /\ rpc \in {"servers", "ended"}
        /\ rpc = "ended" => raised = "NotImplementedError"

\* Two sources on two hosts: run has ended with the error.
C16_Witness ==
    /\ Started
    /\ Len(pipelines[1]) = 2
    /\ Cardinality(Endpoints(pipelines[1])) = 2
    /\ rpc = "ended" /\ raised = "NotImplementedError"

(* C17: the broker calls of a run are, in order: one connect to the single  *)
(* endpoint, one subscribe per declared topic (its subject, the handler of  *)
(* the source that owns it), one flush; subscribes follow a successful      *)
(* connect, and the idle wait is reached with all of them made.             *)
C17_ConnectSubscribeFlushWait ==
    Started =>
        /\ Len(trace) <= TopicCount(pipelines[1]) + 2
        /\ \A i \in DOMAIN trace :
               trace[i] =
                   IF i = 1
                   THEN BrokerCall("connect",
                                   <<"nats", pipelines[1][1].topics[1].host,
                                     pipelines[1][1].topics[1].port>>, "")
                   ELSE IF i = TopicCount(pipelines[1]) + 2
                   THEN BrokerCall("flush", << >>, "")
                   ELSE BrokerCall("subscribe", SubjectOf(NthTopic(pipelines[1], i - 1).topic),
                                   NthTopic(pipelines[1], i - 1).source)
        /\ Len(trace) >= 2 => nc = "open"
        /\ rpc = "wait" => Len(trace) = TopicCount(pipelines[1]) + 2
        /\ Len(trace) = TopicCount(pipelines[1]) + 2 => rpc \in {"wait", "ended"}

\* A two-source pipeline has reached its idle wait.
C17_Witness ==
    /\ Started
    /\ Len(pipelines[1]) = 2
    /\ rpc = "wait"
    /\ Len(trace) = 4

(* C18: once the connection is established, however run ends the           *)
(* connection has been closed.                                              *)
C18_ConnectionClosedWhenRunEnds ==
    (rpc = "ended" /\ nc # "none") => nc = "closed"

C20_RunInvokesEveryPipeline ==
    (Len(pipelines) > 1 /\ rpc = "ended") => \A i \in DOMAIN invoked : invoked[i] = 1

C27_Recorded ==
    (_single_source /\ validator = "identity") =>
        /\ \A j \in DOMAIN calls :
               /\ calls[j].seq \in DOMAIN hist
               /\ hist[calls[j].seq].called = 1
               /\ j > 1 => calls[j - 1].seq < calls[j].seq
        /\ \A i \in DOMAIN hist : hist[i].called = 1 => \E j \in DOMAIN calls : calls[j].seq = i
        /\ \A t \in Tasks :
               cur[t].seq > 0 =>
                   IF FailsCoercion(cur[t].frame)
                   THEN hist[cur[t].seq].called = 0
                   ELSE \/ pc[t] = "callback"
                        \/ /\ hist[cur[t].seq].called = 1
                           /\ \A j \in DOMAIN calls :
                                  calls[j].seq = cur[t].seq => calls[j].arg = cur[t].frame.map

C27_RecordedStep ==
    /\ Len(calls') >= Len(calls)
    /\ SubSeq(calls', 1, Len(calls)) = calls
    /\ \A i \in DOMAIN hist :
           hist'[i].called # hist[i].called => \E t \in Tasks : cur[t].seq = i

C27_RecordedEqualsDecoded == []C27_Recorded /\ [][C27_RecordedStep]_vars

\* Three frames were delivered, the second failed coercion, and the callback
\* recorded the first and the third.
C27_Witness ==
    /\ _single_source /\ validator = "identity"
    /\ Len(hist) = 3
    /\ hist[2].called = 0 /\ hist[2].log = "error"
    /\ Len(calls) = 2
    /\ calls[1].seq = 1 /\ calls[2].seq = 3
    /\ \A t \in Tasks : pc[t] = "idle"

(* C28: the decoding of the handler accepts the unpacked values that        *)
(* coerce_mapping accepts, and hands on the mapping coerce_mapping returns  *)
(* (byte-string keys decoded to text).                                      *)
C28_DecodingIsCoerceMapping ==
    \A t \in Tasks :
        (cur[t].seq > 0 /\ cur[t].frame.kind \in {"map", "list"}) =>
            /\ _decode_exc(cur[t].frame) = "none" <=> coerce_mapping_exc(cur[t].frame) = "none"
            /\ _decode_exc(cur[t].frame) = "none" => _payload_dict(t) = coerce_mapping(cur[t].frame)

(* C30: between two pushes every inflight entry holds at least one          *)
(* fragment and lacks the fragment of at least one required source.         *)
C30_EntriesArePartial ==
    \A k \in DOMAIN pending :
        /\ DOMAIN pending[k].parts # {}
        /\ ~(_required_sources \subseteq DOMAIN pending[k].parts)

\* A join was just emitted for one key while another key's entry is pending.
C30_Witness ==
    /\ Len(sources) = 2
    /\ lastPush.out # << >>
    /\ pending # EmptyMap
    /\ LastKey \notin DOMAIN pending

(* C25: the handler invocations of one pipeline are serialized: at most one *)
(* invocation has started and not yet finished; none starts while another   *)
(* is suspended.                                                            *)
C25_HandlerInvocationsSerialized ==
    \A t, u \in Tasks : (pc[t] = "await" /\ pc[u] = "await") => t = u

-----------------------------------------------------------------------------
(* Claims on Subscriber.subscribe and on the construction of a pipeline.   *)

\* The topics a call names: the positional ones and those of every named source.
CallTopics(c) ==
    {c.topics[i] : i \in 1..Len(c.topics)} \cup
    UNION {{c.sources[i].topics[j] : j \in 1..Len(c.sources[i].topics)} : i \in 1..Len(c.sources)}

\* The number of subjects a call declares in total.
DeclaredSubjects(c) == Len(c.topics) + TopicCount(c.sources)

\* The call gave both positional topics and named sources.
Mixed(c) == c.topics # << >> /\ c.sources # << >>

\* The call has built, or tried to build, a pipeline.
Constructs(c) == c.op \in {"construct", "decorator"}

\* The number of sources of the pipeline the call builds.
SourceCount(c) == IF c.sources # << >> THEN Len(c.sources) ELSE IF c.op = "decorator" THEN 1 ELSE 0

(* C21: every subscribe call that declares more than one subject in total  *)
(* (several positional topics, or the topics summed over all named         *)
(* sources, several topics of one named source included) and gives no key  *)
(* raises at subscribe, and no pipeline is registered: the call never gets *)
(* as far as its decorator.                                                *)
C21_ManySubjectsRequireKey ==
    (/\ lastCall.op \in {"subscribe", "decorator"}
     /\ lastCall.key = NoneVal
     /\ DeclaredSubjects(lastCall) > 1)
        => (lastCall.op = "subscribe" /\ lastCall.exc # "none")

(* C22: a subscribe call that passes both positional topics and named      *)
(* sources raises immediately (TypeError, before any decorator), and the   *)
(* registered pipelines are left as they were.                             *)
C22_MixedRaises ==
    (lastCall.op \in {"subscribe", "decorator"} /\ Mixed(lastCall)) =>
        (lastCall.op = "subscribe" /\ lastCall.exc = "TypeError")
C22_MixedRegistersNothing ==
    (lastCall'.op \in {"subscribe", "decorator"} /\ Mixed(lastCall')) => pipelines' = pipelines
C22_MixedSubscribeRaises == []C22_MixedRaises /\ [][C22_MixedRegistersNothing]_vars

\* A pipeline is registered, and a later mixed call has raised.
C22_Witness ==
    /\ Len(pipelines) = 1
    /\ lastCall.op = "subscribe"
    /\ Mixed(lastCall)
    /\ lastCall.exc = "TypeError"

(* C23: the construction of a pipeline (its topics being valid) with more  *)
(* than one source fails when key is absent or is no text string; with     *)
(* exactly one source and key absent it succeeds.                          *)
C23_KeyRequiredForJoin ==
    (Constructs(lastCall) /\ \A t \in CallTopics(lastCall) : t.host # "") =>
        /\ (SourceCount(lastCall) > 1 /\ (lastCall.key = NoneVal \/ lastCall.key.t # "str"))
               => lastCall.exc = "TypeError"
        /\ (SourceCount(lastCall) = 1 /\ lastCall.key = NoneVal) => lastCall.exc = "none"

\* Two sources and a key that is no text string: the constructor has raised.
C23_Witness ==
    /\ lastCall.op = "construct"
    /\ SourceCount(lastCall) = 2
    /\ lastCall.key # NoneVal /\ lastCall.key.t # "str"
    /\ lastCall.exc = "TypeError"

(* C24: no pipeline without any topic ever connects to a broker: built     *)
(* from an empty sources mapping it is rejected at construction            *)
(* (ValueError) and so never registered; registered with sources that hold *)
(* no topic at all, it fails in run (NotImplementedError) before any call  *)
(* on the broker.                                                          *)
C24_NoTopicNeverConnects ==
    /\ (lastCall.op = "construct" /\ lastCall.sources = << >>) => lastCall.exc = "ValueError"
    /\ \A i \in 1..Len(pipelines) : pipelines[i] # << >>
    /\ (Started /\ TopicCount(pipelines[1]) = 0) =>
           /\ trace = << >>
           /\ nc = "none"
           /\ rpc \in {"servers", "ended"}
           /\ rpc = "ended" => raised = "NotImplementedError"

\* subscribe() without topics or sources was registered and run has failed;
\* the constructor has since refused an empty mapping.
C24_Witness ==
    /\ Started /\ TopicCount(pipelines[1]) = 0
    /\ rpc = "ended" /\ raised = "NotImplementedError"
    /\ lastCall.op = "construct" /\ lastCall.sources = << >> /\ lastCall.exc = "ValueError"

(* C29: a topic whose subject is empty (the path is empty or only a slash) *)
(* is rejected when the pipeline is constructed, and a pipeline holding    *)
(* such a topic never reaches the connecting state.                        *)
C29_EmptySubjectRejectedAtConstruction ==
    /\ (Constructs(lastCall) /\ \E t \in CallTopics(lastCall) : SubjectOf(t) = << >>)
           => lastCall.exc # "none"
    /\ (Started /\ \E n \in 1..TopicCount(pipelines[1]) :
                       SubjectOf(NthTopic(pipelines[1], n).topic) = << >>)
           => (rpc \in {"servers", "ended"} /\ trace = << >>)

-----------------------------------------------------------------------------
(* Claims on the order of removal, validation and dispatch in the join.    *)

\* The join key of the merged payload task t is about to validate.
MergedKey(t) == Head(completed[t])[KeyField]

\* An entry that holds a fragment of every required source.
Complete(entry) == \A i \in 1..Len(sources) : sources[i] \in DOMAIN entry.parts

(* C31: at the moment the validator is called on a merged payload for key   *)
(* k, the inflight entry that produced the merge has already been removed   *)
(* from the state of the defragmenter: the push that returns the merged     *)
(* payload leaves no entry for k, and whatever entry k has when the         *)
(* validator runs is a later one, still incomplete.                         *)
C31_NoCompleteEntryAtValidation ==
    \A t \in Tasks :
        pc[t] = "emit" =>
            (MergedKey(t) \in DOMAIN pending => ~Complete(pending[MergedKey(t)]))
C31_RemovedByThePush ==
    \A t \in DOMAIN pc :
        (pc[t] = "push" /\ pc'[t] = "emit") => MergedKey(t)' \notin DOMAIN pending'
C31_RemovedBeforeValidation == []C31_NoCompleteEntryAtValidation /\ [][C31_RemovedByThePush]_vars

\* A task is about to validate a merged payload and its key has no entry.
C31_Witness ==
    \E t \in Tasks : pc[t] = "emit" /\ MergedKey(t) \notin DOMAIN pending

(* C32: at most one delivery task is inside JoinDefragmenter.push at any    *)
(* time, whatever the interleaving of the frames on the subjects of the     *)
(* pipeline, and that task holds the lock; the state of the defragmenter    *)
(* changes only in the one step in which the holder of the lock runs push   *)
(* from its eviction to its removal.                                        *)
C32_OneTaskInPush ==
    \A t, u \in Tasks : (pc[t] = "push" /\ pc[u] = "push") => (t = u /\ lock = t)
C32_PushIsOneStep ==
    pending' # pending => \E t \in DOMAIN pc : lock = t /\ pc[t] = "push" /\ pc'[t] # "push"
C32_PushesSerialized == []C32_OneTaskInPush /\ [][C32_PushIsOneStep]_vars

\* One task is inside push while the task of the other subject waits for
\* the lock.
C32_Witness ==
    \E t, u \in Tasks : t # u /\ pc[t] = "push" /\ lock = t /\ pc[u] = "acquire"

(* C33: the lock is released on every exit path of the guarded push, also   *)
(* when push raises for a missing or illegal join key, and it is never held *)
(* by a task that is suspended or outside push; hence no delivery task      *)
(* waits for the lock forever, and a fragment with a bad join key does not  *)
(* keep later fragments from being pushed.                                  *)
C33_NotHeldOutsidePush ==
    \A t \in Tasks : pc[t] # "push" => lock # t
C33_ReleasedOnExit ==
    \A t \in DOMAIN pc : (pc[t] = "push" /\ pc'[t] # "push") => lock' = NoTask
C33_NoWaitForever ==
    \A t \in JoinTasks : (pc[t] = "acquire") ~> (pc[t] = "push")
C33_LockAlwaysReleased ==
    /\ []C33_NotHeldOutsidePush
    /\ [][C33_ReleasedOnExit]_vars
    /\ C33_NoWaitForever

\* The last push raised on its join key and left the lock free, and the task
\* of the other subject, which waited for the lock, has its fragment to push.
C33_Witness ==
    /\ lastPush.exc # "none"
    /\ lock = NoTask
    /\ \E t, u \in Tasks :
           /\ t # u
           /\ lastPush.src = subjects[t] /\ pc[t] = "idle"
           /\ pc[u] = "acquire"

-----------------------------------------------------------------------------
(* Claims on what a push changes.                                          *)

(* C34: join-key extraction is the first step of push and eviction the      *)
(* second: a push whose payload has no join key, or a join key of an        *)
(* illegal shape, fails and leaves the state of the defragmenter unchanged; *)
(* it creates no entry, changes no slot and evicts no entry.                *)
C34_FailedPushChangesNothing ==
    lastPush.exc # "none" => lastPush.evicted = {}

-----------------------------------------------------------------------------
(* Claims on the log records of the handler.                               *)

(* C35: a frame that fails decoding or coercion is reported by a log record *)
(* at warning level, not at error level, and then dropped.                  *)
C35_DecodeFailureLoggedAsWarning ==
    \A t \in Tasks :
        (cur[t].seq > 0 /\ FailsCoercion(cur[t].frame)) =>
            /\ hist[cur[t].seq].log = "warning"
            /\ hist[cur[t].seq].called = 0
            /\ pc[t] = "idle"

(* C36: an exception raised by the user callback is reported at error level *)
(* as a handler failure, in the single-source and in the multi-source path  *)
(* alike and whatever its class, ValueError and TypeError included; it is   *)
(* never reported as a validation failure at warning level.                 *)
C36_CallbackFailureLoggedAsError ==
    \A i \in DOMAIN hist :
        (hist[i].called > 0 /\ hist[i].log # "none") =>
            (hist[i].log = "error" /\ hist[i].msg = "Message handling failed")

(* C37: the creation time of an inflight entry is set when its first        *)
(* fragment arrives and never changes afterwards: later fragments for the   *)
(* same key, duplicates or fragments of other sources, leave it as it is.   *)
(* The one entry whose time differs from that of the entry the key had      *)
(* before is a new entry, begun by the push that evicted the old one.       *)
C37_CreatedWithFirstFragment ==
    /\ \A k \in DOMAIN pending : \A s \in DOMAIN pending[k].parts :
           pending[k].created_at <= latest[k][s].at
    /\ (lastPush.exc = "none" /\ lastPush.fresh /\ LastKey \in DOMAIN pending) =>
           pending[LastKey].created_at = latest[LastKey][lastPush.src].at
C37_CreatedAtKept ==
    \A k \in DOMAIN pending \cap DOMAIN pending' :
        pending'[k].created_at # pending[k].created_at =>
            /\ lastPush'.exc = "none" /\ lastPush'.payload[KeyField] = k
            /\ lastPush'.fresh /\ k \in lastPush'.evicted
C37_CreationTimeNeverChanges == []C37_CreatedWithFirstFragment /\ [][C37_CreatedAtKept]_vars

\* A later fragment was stored in an entry created before it arrived.
C37_Witness ==
    /\ lastPush.src # "" /\ lastPush.exc = "none" /\ ~lastPush.fresh
    /\ LastKey \in DOMAIN pending
    /\ pending[LastKey].created_at < lastPush.at
    /\ pending[LastKey].created_at < latest[LastKey][lastPush.src].at

\* An entry the cleanup of a push at time t has no reason to remove.
NotStaleAt(entry, t) == max_age_s <= 0 \/ t - entry.created_at <= max_age_s

(* C38: a push for key k leaves the inflight entry of every other key that  *)
(* is not stale exactly as it was, with the same creation time and the same *)
(* parts, and a completion for k neither removes nor emits the entry of     *)
(* another key: what push returns carries the join key of the push.         *)
C38_EmitsOwnKeyOnly ==
    \A i \in 1..Len(lastPush.out) : lastPush.out[i][KeyField] = lastPush.payload[KeyField]
C38_OtherEntriesKept ==
    \A k \in DOMAIN pending :
        (k # Get(lastPush'.payload, KeyField) /\ NotStaleAt(pending[k], lastPush'.at)) =>
            (k \in DOMAIN pending' /\ pending'[k] = pending[k])
C38_OtherKeysUntouched == []C38_EmitsOwnKeyOnly /\ [][C38_OtherEntriesKept]_vars

\* A push completed the join of its key while another key's entry stayed.
C38_Witness ==
    /\ lastPush.out # << >>
    /\ \E k \in DOMAIN pending : k # lastPush.payload[KeyField] /\ pending[k].created_at < lastPush.at

(* C39: a single-source pipeline never reads the join key: its handler      *)
(* calls no push, and a payload that lacks the key field constructed with   *)
(* the pipeline is validated and dispatched to the handler like any other,  *)
(* once, with the validator's value.                                        *)
C39_SingleSourceIgnoresJoinKey ==
    Len(sources) = 1 =>
        /\ lastPush = NoPush
        /\ \A t \in Tasks :
               ( /\ cur[t].seq > 0
                 /\ ~FailsCoercion(cur[t].frame)
                 /\ KeyField \notin DOMAIN cur[t].frame.map
                 /\ Validator(cur[t].frame.map).exc = "none"
                 /\ pc[t] # "callback" )
               => /\ hist[cur[t].seq].called = 1
                  /\ \E j \in DOMAIN calls :
                         /\ calls[j].seq = cur[t].seq
                         /\ calls[j].arg = Validator(cur[t].frame.map).val

\* A payload without the key field went through the callback, which returned.
C39_Witness ==
    /\ Len(sources) = 1
    /\ \E t \in Tasks :
           /\ cur[t].seq > 0
           /\ cur[t].frame.kind = "map"
           /\ KeyField \notin DOMAIN cur[t].frame.map
           /\ hist[cur[t].seq].called = 1
           /\ hist[cur[t].seq].log = "none"
           /\ pc[t] = "idle"

-----------------------------------------------------------------------------
(* Claims on a join whose source has several topics.                       *)

\* The subjects on which a frame has been delivered and pushed so far.
PushedOn == {hist[i].by : i \in {j \in DOMAIN hist : hist[j].pushed}}

(* C40: all topics of one named source feed the same slot of the join: the  *)
(* slots of an entry are named by sources, never by subjects, and hold the  *)
(* fragment stored last for the source, on whichever subject it came;       *)
(* fragments that arrived on the subjects of one source alone complete no   *)
(* join, and a join completes only with a part of every distinct source.    *)
C40_TopicsOfASourceShareItsSlot ==
    /\ \A k \in DOMAIN pending :
           /\ DOMAIN pending[k].parts \subseteq {sources[i] : i \in 1..Len(sources)}
           /\ \A s \in DOMAIN pending[k].parts : pending[k].parts[s] = latest[k][s].payload
    /\ lastPush.out # << >> =>
           DOMAIN lastPush.parts = {sources[i] : i \in 1..Len(sources)}
    /\ (\A t \in PushedOn : subjects[t] = "raw") =>
           (calls = << >> /\ lastPush.out = << >> /\ \A t \in Tasks : completed[t] = << >>)

\* Two fragments of the key came on the two subjects of raw: the entry has
\* the one slot of raw, with the later of them, and nothing was emitted.
C40_Witness ==
    /\ {"raw.a", "raw.b"} \subseteq PushedOn
    /\ "enriched" \notin PushedOn
    /\ PipelineKey \in DOMAIN pending
    /\ DOMAIN pending[PipelineKey].parts = {"raw"}
    /\ npush[PipelineKey]["raw"] = 2
    /\ pending[PipelineKey].parts["raw"] = lastPush.payload
    /\ calls = << >>

====
